---- MODULE Spec2Model ----
(***************************************************************************)
(* Model of the TO-DO CLI application: the TodoItem / TodoList library     *)
(* (todo_list/src/lib.rs), the copy of it embedded in the binary           *)
(* (src/main.rs, module todo_list) and the command-line actions            *)
(* (src/actions.rs and src/main.rs, module actions).                       *)
(*                                                                         *)
(* Text is modelled as a sequence of one-character strings, so that        *)
(* lowercasing, CSV formatting/splitting and JSON printing/parsing are     *)
(* computed character by character as the code computes them.              *)
(***************************************************************************)
EXTENDS Integers, Sequences, FiniteSets, TLC

VARIABLES
    variant,   \* which copy of the code runs: "lib" (lib.rs + actions.rs) or "main" (main.rs)
    todo,      \* the TodoList in memory: [list : key -> TodoItem, next_id : u32]
    origin,    \* how `todo` was constructed: "build", "read_json" or "read_csv"
    assigned,  \* history: ids given by the successful inserts into `todo`, in order
    fs,        \* the file system: path -> [kind : "absent" | "denied" | "file", text]
    written,   \* history: for each path, what the last save wrote there (or None)
    mutated,   \* whether `todo` was changed since the file was last read or written
    cli,       \* the invocations of the program: process -> [pc, todo, ...]
    last,      \* the last library call: [op, arg]
    ret        \* what the last library call returned

vars == <<variant, todo, origin, assigned, fs, written, mutated, cli, last, ret>>

(***************************************************************************)
(* Bounds of the model.                                                    *)
(***************************************************************************)
\* inserts are explored while next_id is below this bound (u32 in the code)
MaxNextId == 2

Variants == {"lib", "main"}

(***************************************************************************)
(* Option / Result values.                                                 *)
(***************************************************************************)
None == [tag |-> "None"]
Some(v) == [tag |-> "Some", val |-> v]
Bool(b) == [tag |-> "Bool", b |-> b]
Ok(v) == [tag |-> "Ok", val |-> v]
Err(e) == [tag |-> "Err", err |-> e]
\* the process aborted (unwrap / expect / index out of bounds)
Panic(why) == [tag |-> "Panic", why |-> why]

(***************************************************************************)
(* Characters and text.                                                    *)
(***************************************************************************)
NL == "\n"
QUOTE == "\""
BACKSLASH == "\\"

RECURSIVE MapSeq(_, _)
\* s with Op applied to every element
MapSeq(Op(_), s) ==
    IF s = <<>> THEN <<>> ELSE <<Op(Head(s))>> \o MapSeq(Op, Tail(s))

\* char::to_ascii_lowercase: only the ASCII letters A-Z change
AsciiLowerChar(c) ==
    CASE c = "A" -> "a"
      [] c = "B" -> "b"
      [] c = "C" -> "c"
      [] OTHER -> c

\* str::to_ascii_lowercase
ToAsciiLowercase(s) == MapSeq(AsciiLowerChar, s)

(***************************************************************************)
(* Text helpers of the standard library, as the code uses them.            *)
(***************************************************************************)
COMMA == ","
Digits == <<"0", "1", "2", "3", "4", "5", "6", "7", "8", "9">>
Whitespace == {" ", "\t", "\r", NL}

\* the digits of u32::MAX, 4294967295
U32MaxDigits == <<"4", "2", "9", "4", "9", "6", "7", "2", "9", "5">>

IsDigit(c) == \E i \in 1 .. 10 : Digits[i] = c
DigitVal(c) == (CHOOSE i \in 1 .. 10 : Digits[i] = c) - 1

RECURSIVE Dec(_)
\* Display for u32: the decimal digits of n
Dec(n) == IF n < 10 THEN <<Digits[n + 1]>> ELSE Dec(n \div 10) \o <<Digits[(n % 10) + 1]>>

\* Display for bool
BoolText(b) == IF b THEN <<"t", "r", "u", "e">> ELSE <<"f", "a", "l", "s", "e">>

\* the index of the first c in s, or 0
IndexOf(s, c) ==
    IF \E i \in 1 .. Len(s) : s[i] = c
    THEN CHOOSE i \in 1 .. Len(s) : s[i] = c /\ \A j \in 1 .. (i - 1) : s[j] # c
    ELSE 0

RECURSIVE SplitN(_, _, _)
\* str::splitn(n, sep): at most n pieces, the last one holding the rest
SplitN(n, sep, s) ==
    IF n = 0 THEN <<>>
    ELSE IF n = 1 \/ IndexOf(s, sep) = 0 THEN <<s>>
    ELSE <<SubSeq(s, 1, IndexOf(s, sep) - 1)>>
             \o SplitN(n - 1, sep, SubSeq(s, IndexOf(s, sep) + 1, Len(s)))

RECURSIVE SplitAll(_, _)
\* str::split(sep)
SplitAll(sep, s) ==
    IF IndexOf(s, sep) = 0 THEN <<s>>
    ELSE <<SubSeq(s, 1, IndexOf(s, sep) - 1)>>
             \o SplitAll(sep, SubSeq(s, IndexOf(s, sep) + 1, Len(s)))

\* a line without the carriage return that may end it
StripCr(l) == IF l # <<>> /\ l[Len(l)] = "\r" THEN SubSeq(l, 1, Len(l) - 1) ELSE l

\* str::lines: the text cut at every line feed; what follows the last line
\* feed is a line only when it is not empty
Lines(text) ==
    LET parts == SplitAll(NL, text)
        kept == IF parts[Len(parts)] = <<>> THEN SubSeq(parts, 1, Len(parts) - 1) ELSE parts
    IN  MapSeq(StripCr, kept)

RECURSIVE TrimStart(_)
TrimStart(s) == IF s # <<>> /\ Head(s) \in Whitespace THEN TrimStart(Tail(s)) ELSE s

RECURSIVE TrimEnd(_)
TrimEnd(s) ==
    IF s # <<>> /\ s[Len(s)] \in Whitespace THEN TrimEnd(SubSeq(s, 1, Len(s) - 1)) ELSE s

\* str::trim
Trim(s) == TrimEnd(TrimStart(s))

RECURSIVE DigitsValue(_, _)
\* the number a run of digits denotes, after acc
DigitsValue(acc, s) ==
    IF s = <<>> THEN acc ELSE DigitsValue(10 * acc + DigitVal(Head(s)), Tail(s))

RECURSIVE StripZeros(_)
StripZeros(s) == IF s # <<>> /\ Head(s) = "0" THEN StripZeros(Tail(s)) ELSE s

\* whether a run of digits denotes more than u32::MAX
OverflowsU32(s) ==
    LET d == StripZeros(s) IN
    \/ Len(d) > Len(U32MaxDigits)
    \/ /\ Len(d) = Len(U32MaxDigits)
       /\ \E i \in 1 .. Len(d) :
              /\ DigitVal(d[i]) > DigitVal(U32MaxDigits[i])
              /\ \A j \in 1 .. (i - 1) : d[j] = U32MaxDigits[j]

\* str::parse::<u32>: an optional '+', then one digit or more, within u32
ParseU32(s) ==
    LET body == IF s # <<>> /\ Head(s) = "+" THEN Tail(s) ELSE s IN
    IF body = <<>> \/ \E i \in 1 .. Len(body) : ~IsDigit(body[i])
    THEN Err("ParseIntError")
    ELSE IF OverflowsU32(body) THEN Err("ParseIntError")
    ELSE Ok(DigitsValue(0, body))

\* the orders in which a scan may visit a set of keys
Orders(S) ==
    {o \in [1 .. Cardinality(S) -> S] : \A i, j \in 1 .. Cardinality(S) : i # j => o[i] # o[j]}

(***************************************************************************)
(* TodoItem.                                                               *)
(***************************************************************************)
\* TodoItem::build: done starts false
ItemBuild(next_id, description) ==
    [id |-> next_id, description |-> description, done |-> FALSE]

\* the mutant: update sets done instead of toggling it
ItemUpdateSetsDone(item) == [item EXCEPT !.done = TRUE]

\* TodoItem::update: toggles done
ItemUpdate(item) == [item EXCEPT !.done = ~item.done]

(***************************************************************************)
(* TodoList: the pure effect of each method, as [todo, ret].               *)
(* A HashMap has no defined iteration order: where the code scans the map  *)
(* the model yields the set of outcomes over all orders.                   *)
(***************************************************************************)
EmptyMap == [k \in {} |-> None]

\* TodoList::build
Build == [list |-> EmptyMap, next_id |-> 0]

Keys(t) == DOMAIN t.list

\* HashMap::insert / HashMap::remove on the list
MapPut(m, k, v) == [x \in (DOMAIN m) \cup {k} |-> IF x = k THEN v ELSE m[x]]
MapDel(m, k) == [x \in (DOMAIN m) \ {k} |-> m[x]]

\* the keys whose item carries this id (the matches of a scan over the map)
KeysWithId(t, id) == {k \in Keys(t) : t.list[k].id = id}

\* the mutant: the new item takes the number of items as its id
InsertCountId(t, d) ==
    LET key == ToAsciiLowercase(d) IN
    IF key \in Keys(t)
    THEN [todo |-> t, ret |-> Bool(FALSE)]
    ELSE [todo |-> [list |-> MapPut(t.list, key,
                                     ItemBuild(Cardinality(Keys(t)), key)),
                    next_id |-> Cardinality(Keys(t)) + 1],
          ret |-> Bool(TRUE)]

\* the mutant: the duplicate check looks the text up as given
InsertRawLookup(t, d) ==
    LET key == ToAsciiLowercase(d) IN
    IF d \in Keys(t)
    THEN [todo |-> t, ret |-> Bool(FALSE)]
    ELSE [todo |-> [list |-> MapPut(t.list, key, ItemBuild(t.next_id, key)),
                    next_id |-> t.next_id + 1],
          ret |-> Bool(TRUE)]

\* TodoList::insert
InsertFn(t, d) ==
    LET key == ToAsciiLowercase(d) IN
    IF key \in Keys(t)
    THEN [todo |-> t, ret |-> Bool(FALSE)]
    ELSE [todo |-> [list |-> MapPut(t.list, key, ItemBuild(t.next_id, key)),
                    next_id |-> t.next_id + 1],
          ret |-> Bool(TRUE)]

\* TodoList::get_item_by_description: looks the text up as given
GetItemByDescriptionFn(t, d) ==
    IF d \in Keys(t) THEN Some(t.list[d]) ELSE None

\* TodoList::get_item_by_id: the first match of a scan, in every order
GetItemByIdFn(t, id) ==
    IF KeysWithId(t, id) = {}
    THEN {None}
    ELSE {Some(t.list[k]) : k \in KeysWithId(t, id)}

\* TodoList::update_todo_item_description
UpdateTodoItemDescriptionFn(t, d) ==
    LET key == ToAsciiLowercase(d) IN
    IF key \in Keys(t)
    THEN [todo |-> [t EXCEPT !.list[key] = ItemUpdate(@)],
          ret |-> Some(~t.list[key].done)]
    ELSE [todo |-> t, ret |-> None]

\* TodoList::update_todo_item_id: the first match of a scan, in every order
UpdateTodoItemIdFn(t, id) ==
    IF KeysWithId(t, id) = {}
    THEN {[todo |-> t, ret |-> None]}
    ELSE {[todo |-> [t EXCEPT !.list[k] = ItemUpdate(@)],
           ret |-> Some(~t.list[k].done)] : k \in KeysWithId(t, id)}

\* TodoList::remove_by_description
RemoveByDescriptionFn(t, d) ==
    LET key == ToAsciiLowercase(d) IN
    IF key \in Keys(t)
    THEN [todo |-> [t EXCEPT !.list = MapDel(t.list, key)],
          ret |-> Some(t.list[key])]
    ELSE [todo |-> t, ret |-> None]

\* TodoList::remove_by_id: one match of a scan (the first in lib.rs, the
\* last in main.rs), in every order
RemoveByIdFn(t, id) ==
    IF KeysWithId(t, id) = {}
    THEN {[todo |-> t, ret |-> None]}
    ELSE {[todo |-> [t EXCEPT !.list = MapDel(t.list, k)],
           ret |-> Some(t.list[k])] : k \in KeysWithId(t, id)}

(***************************************************************************)
(* CSV, as TodoItem::elem_in_csv, TodoList::save_csv and read_csv do it.   *)
(***************************************************************************)
\* TodoItem::header_of_csv: "Id,Description,Done"
HeaderOfCsv ==
    <<"I", "d", ",", "D", "e", "s", "c", "r", "i", "p", "t", "i", "o", "n", ",",
      "D", "o", "n", "e">>

\* TodoItem::elem_in_csv: format!("{},{},{}", id, description, done)
ElemInCsv(item) ==
    Dec(item.id) \o <<COMMA>> \o item.description \o <<COMMA>> \o BoolText(item.done)

RECURSIVE CsvRecords(_, _)
\* the records of the items in the order the map is visited, one per line
CsvRecords(t, order) ==
    IF order = <<>> THEN <<>>
    ELSE ElemInCsv(t.list[Head(order)]) \o <<NL>> \o CsvRecords(t, Tail(order))

\* the content save_csv of lib.rs writes: the header line, then the records
CsvContentLib(t, order) == HeaderOfCsv \o <<NL>> \o CsvRecords(t, order)

\* the content save_csv of main.rs writes: the records (the header is a TODO)
CsvContentMain(t, order) == CsvRecords(t, order)

\* the path save_csv writes: "<filename>.csv" in lib.rs, "<filename>" in main.rs
SaveCsvPath(v, filename) == IF v = "lib" THEN filename \o ".csv" ELSE filename

SaveCsvContent(v, t, order) ==
    IF v = "lib" THEN CsvContentLib(t, order) ELSE CsvContentMain(t, order)

\* one line of read_csv: splitn(3, ','), then v[0], v[1], v[2], then
\* id.trim().parse().unwrap(); a short line or a bad id aborts the process
CsvLine(line) ==
    LET v == SplitN(3, COMMA, line) IN
    IF Len(v) < 3 THEN Panic("index out of bounds")
    ELSE IF ParseU32(Trim(v[1])).tag = "Err" THEN Panic("unwrap on ParseIntError")
    ELSE Ok([id |-> ParseU32(Trim(v[1])).val,
             description |-> v[2],
             done |-> (v[3] = BoolText(TRUE))])

RECURSIVE CsvCollect(_, _)
\* collect() into the HashMap: a later line replaces an earlier one with the
\* same description; acc is [list, id_max]
CsvCollect(acc, lines) ==
    IF lines = <<>> THEN acc
    ELSE LET item == CsvLine(Head(lines)).val IN
         CsvCollect([list |-> MapPut(acc.list, item.description, item),
                     id_max |-> IF acc.id_max < item.id THEN item.id ELSE acc.id_max],
                    Tail(lines))

\* the mutant: no line is skipped
CsvDataLinesNoSkip(v, text) == Lines(text)

\* the lines read_csv parses: lib.rs skips the header line, main.rs does not
CsvDataLines(v, text) ==
    IF v = "lib"
    THEN (IF Lines(text) = <<>> THEN <<>> ELSE Tail(Lines(text)))
    ELSE Lines(text)

\* read_csv on the content of the file: the first bad line aborts the
\* process; otherwise the list and next_id = id_max + 1, id_max starting at 0
\* (id_max + 1 overflows for an id of u32::MAX, which no state here holds)
ReadCsvText(v, text) ==
    LET lines == CsvDataLines(v, text) IN
    IF \E i \in 1 .. Len(lines) : CsvLine(lines[i]).tag = "Panic"
    THEN CsvLine(lines[CHOOSE i \in 1 .. Len(lines) :
                           /\ CsvLine(lines[i]).tag = "Panic"
                           /\ \A j \in 1 .. (i - 1) : CsvLine(lines[j]).tag # "Panic"])
    ELSE LET got == CsvCollect([list |-> EmptyMap, id_max |-> 0], lines) IN
         Ok([list |-> got.list, next_id |-> got.id_max + 1])

(***************************************************************************)
(* JSON, as serde_json prints and reads the derived Serialize/Deserialize  *)
(* of TodoList { list, next_id } and TodoItem { id, description, done }.   *)
(***************************************************************************)
RECURSIVE JsonEscape(_)
\* the characters of a string as serde_json writes them between quotes
JsonEscape(s) ==
    IF s = <<>> THEN <<>>
    ELSE (CASE Head(s) = QUOTE -> <<BACKSLASH, QUOTE>>
            [] Head(s) = BACKSLASH -> <<BACKSLASH, BACKSLASH>>
            [] Head(s) = NL -> <<BACKSLASH, "n">>
            [] Head(s) = "\r" -> <<BACKSLASH, "r">>
            [] Head(s) = "\t" -> <<BACKSLASH, "t">>
            [] OTHER -> <<Head(s)>>) \o JsonEscape(Tail(s))

JsonString(s) == <<QUOTE>> \o JsonEscape(s) \o <<QUOTE>>

\* the field names of the two structs
NameList == <<"l", "i", "s", "t">>
NameNextId == <<"n", "e", "x", "t", "_", "i", "d">>
NameId == <<"i", "d">>
NameDescription == <<"d", "e", "s", "c", "r", "i", "p", "t", "i", "o", "n">>
NameDone == <<"d", "o", "n", "e">>

RECURSIVE Spaces(_)
Spaces(n) == IF n = 0 THEN <<>> ELSE <<" ">> \o Spaces(n - 1)

\* PrettyFormatter: a line feed and two spaces per level before each member
Indent(level) == <<NL>> \o Spaces(2 * level)

\* one TodoItem, pretty, as the value of a member at the given level
JsonItemPretty(item, level) ==
    <<"{">>
    \o Indent(level + 1) \o JsonString(NameId) \o <<":", " ">> \o Dec(item.id) \o <<",">>
    \o Indent(level + 1) \o JsonString(NameDescription) \o <<":", " ">>
        \o JsonString(item.description) \o <<",">>
    \o Indent(level + 1) \o JsonString(NameDone) \o <<":", " ">> \o BoolText(item.done)
    \o Indent(level) \o <<"}">>

RECURSIVE JsonListMembersPretty(_, _, _)
JsonListMembersPretty(t, order, level) ==
    IF order = <<>> THEN <<>>
    ELSE Indent(level) \o JsonString(Head(order)) \o <<":", " ">>
             \o JsonItemPretty(t.list[Head(order)], level)
             \o (IF Tail(order) = <<>> THEN <<>> ELSE <<",">>)
             \o JsonListMembersPretty(t, Tail(order), level)

\* the mutant: next_id is written as the number of items
ToJsonPrettyCountAsNextId(t, order) ==
    <<"{">>
    \o Indent(1) \o JsonString(NameList) \o <<":", " ">>
        \o (IF order = <<>> THEN <<"{", "}">>
            ELSE <<"{">> \o JsonListMembersPretty(t, order, 2) \o Indent(1) \o <<"}">>)
        \o <<",">>
    \o Indent(1) \o JsonString(NameNextId) \o <<":", " ">> \o Dec(Len(order))
    \o Indent(0) \o <<"}">>

\* serde_json::to_string_pretty(&TodoList), the map visited in this order
ToJsonPretty(t, order) ==
    <<"{">>
    \o Indent(1) \o JsonString(NameList) \o <<":", " ">>
        \o (IF order = <<>> THEN <<"{", "}">>
            ELSE <<"{">> \o JsonListMembersPretty(t, order, 2) \o Indent(1) \o <<"}">>)
        \o <<",">>
    \o Indent(1) \o JsonString(NameNextId) \o <<":", " ">> \o Dec(t.next_id)
    \o Indent(0) \o <<"}">>

\* one TodoItem, compact
JsonItem(item) ==
    <<"{">> \o JsonString(NameId) \o <<":">> \o Dec(item.id) \o <<",">>
    \o JsonString(NameDescription) \o <<":">> \o JsonString(item.description) \o <<",">>
    \o JsonString(NameDone) \o <<":">> \o BoolText(item.done) \o <<"}">>

RECURSIVE JsonListMembers(_, _)
JsonListMembers(t, order) ==
    IF order = <<>> THEN <<>>
    ELSE JsonString(Head(order)) \o <<":">> \o JsonItem(t.list[Head(order)])
             \o (IF Tail(order) = <<>> THEN <<>> ELSE <<",">>)
             \o JsonListMembers(t, Tail(order))

\* serde_json::to_string(&TodoList), the map visited in this order
ToJson(t, order) ==
    <<"{">> \o JsonString(NameList) \o <<":", "{">> \o JsonListMembers(t, order)
    \o <<"}", ",">> \o JsonString(NameNextId) \o <<":">> \o Dec(t.next_id) \o <<"}">>

\* --- reading ---
Fail == [ok |-> FALSE]
Good(v, p) == [ok |-> TRUE, val |-> v, pos |-> p]

\* the character at position i, or "" past the end
At(t, i) == IF i >= 1 /\ i <= Len(t) THEN t[i] ELSE ""

RECURSIVE SkipWs(_, _)
\* the first position at or after i that holds no JSON whitespace
SkipWs(t, i) == IF At(t, i) \in {" ", NL, "\t", "\r"} THEN SkipWs(t, i + 1) ELSE i

RECURSIVE JsonStringBody(_, _, _)
\* the characters of a string from position i to its closing quote; the
\* escapes \b, \f and \u.... name characters outside the model's alphabet
JsonStringBody(t, i, acc) ==
    IF At(t, i) = "" \/ At(t, i) \in {NL, "\t", "\r"} THEN Fail
    ELSE IF At(t, i) = QUOTE THEN Good(acc, i + 1)
    ELSE IF At(t, i) = BACKSLASH
         THEN (CASE At(t, i + 1) = QUOTE -> JsonStringBody(t, i + 2, Append(acc, QUOTE))
                 [] At(t, i + 1) = BACKSLASH -> JsonStringBody(t, i + 2, Append(acc, BACKSLASH))
                 [] At(t, i + 1) = "/" -> JsonStringBody(t, i + 2, Append(acc, "/"))
                 [] At(t, i + 1) = "n" -> JsonStringBody(t, i + 2, Append(acc, NL))
                 [] At(t, i + 1) = "r" -> JsonStringBody(t, i + 2, Append(acc, "\r"))
                 [] At(t, i + 1) = "t" -> JsonStringBody(t, i + 2, Append(acc, "\t"))
                 [] OTHER -> Fail)
    ELSE JsonStringBody(t, i + 1, Append(acc, At(t, i)))

\* a JSON string at position i
ParseJsonString(t, i) ==
    IF At(t, i) = QUOTE THEN JsonStringBody(t, i + 1, <<>>) ELSE Fail

RECURSIVE DigitsEnd(_, _)
\* the position after the run of digits that starts at i
DigitsEnd(t, i) == IF IsDigit(At(t, i)) THEN DigitsEnd(t, i + 1) ELSE i

\* a JSON number at position i read as a u32: no sign, no leading zero, no
\* fraction or exponent, within u32
ParseJsonU32(t, i) ==
    LET e == DigitsEnd(t, i) IN
    IF e = i THEN Fail
    ELSE IF At(t, i) = "0" /\ e > i + 1 THEN Fail
    ELSE IF At(t, e) \in {".", "e", "E"} THEN Fail
    ELSE IF OverflowsU32(SubSeq(t, i, e - 1)) THEN Fail
    ELSE Good(DigitsValue(0, SubSeq(t, i, e - 1)), e)

\* whether the characters of w stand at position i
Stands(t, i, w) == i + Len(w) - 1 <= Len(t) /\ SubSeq(t, i, i + Len(w) - 1) = w

\* a JSON boolean at position i
ParseJsonBool(t, i) ==
    IF Stands(t, i, BoolText(TRUE)) THEN Good(TRUE, i + Len(BoolText(TRUE)))
    ELSE IF Stands(t, i, BoolText(FALSE)) THEN Good(FALSE, i + Len(BoolText(FALSE)))
    ELSE Fail

\* the field of TodoItem a member name selects ("" for any other name; the
\* writers of the model produce no other member, and the reader refuses it)
ItemField(name) ==
    CASE name = NameId -> "id"
      [] name = NameDescription -> "description"
      [] name = NameDone -> "done"
      [] OTHER -> ""

\* the value of a TodoItem field at position at
ItemValue(t, field, at) ==
    CASE field = "id" -> ParseJsonU32(t, at)
      [] field = "description" -> ParseJsonString(t, at)
      [] field = "done" -> ParseJsonBool(t, at)
      [] OTHER -> Fail

RECURSIVE ParseItemMembers(_, _, _)
\* after a member of a TodoItem object: a comma and the next member, or the
\* closing brace, where a missing field is an error
ItemMemberNext(t, after, got) ==
    IF At(t, after) = "," THEN ParseItemMembers(t, SkipWs(t, after + 1), got)
    ELSE IF At(t, after) = "}" /\ DOMAIN got = {"id", "description", "done"}
         THEN Good([id |-> got["id"], description |-> got["description"],
                    done |-> got["done"]], after + 1)
    ELSE Fail

\* the member of a TodoItem object whose value was read; acc holds the
\* fields read before it; a repeated field is an error
ItemMemberRead(t, acc, field, value) ==
    IF field \in DOMAIN acc \/ ~value.ok THEN Fail
    ELSE ItemMemberNext(t, SkipWs(t, value.pos),
             [f \in (DOMAIN acc) \cup {field} |-> IF f = field THEN value.val ELSE acc[f]])

\* the member of a TodoItem object whose name was read
ItemMemberNamed(t, acc, name) ==
    IF ~name.ok \/ At(t, SkipWs(t, name.pos)) # ":" THEN Fail
    ELSE ItemMemberRead(t, acc, ItemField(name.val),
             ItemValue(t, ItemField(name.val), SkipWs(t, SkipWs(t, name.pos) + 1)))

\* the members of a TodoItem object from the member name at position i
ParseItemMembers(t, i, acc) == ItemMemberNamed(t, acc, ParseJsonString(t, i))

\* a TodoItem object at position i
ParseJsonItem(t, i) ==
    IF At(t, i) # "{" \/ At(t, SkipWs(t, i + 1)) = "}" THEN Fail
    ELSE ParseItemMembers(t, SkipWs(t, i + 1), [f \in {} |-> 0])

RECURSIVE ParseListMembers(_, _, _)
\* after a member of the list object: a comma and the next member, or the
\* closing brace
ListMemberNext(t, after, got) ==
    IF At(t, after) = "," THEN ParseListMembers(t, SkipWs(t, after + 1), got)
    ELSE IF At(t, after) = "}" THEN Good(got, after + 1)
    ELSE Fail

\* the member of the list object whose item was read; a later key replaces
\* an equal earlier one
ListMemberRead(t, acc, key, item) ==
    IF ~item.ok THEN Fail
    ELSE ListMemberNext(t, SkipWs(t, item.pos), MapPut(acc, key, item.val))

\* the member of the list object whose key was read
ListMemberNamed(t, acc, key) ==
    IF ~key.ok \/ At(t, SkipWs(t, key.pos)) # ":" THEN Fail
    ELSE ListMemberRead(t, acc, key.val,
             ParseJsonItem(t, SkipWs(t, SkipWs(t, key.pos) + 1)))

\* the members of the list object from the key at position i
ParseListMembers(t, i, acc) == ListMemberNamed(t, acc, ParseJsonString(t, i))

\* the HashMap<String, TodoItem> object at position i
ParseJsonList(t, i) ==
    IF At(t, i) # "{" THEN Fail
    ELSE IF At(t, SkipWs(t, i + 1)) = "}" THEN Good(EmptyMap, SkipWs(t, i + 1) + 1)
    ELSE ParseListMembers(t, SkipWs(t, i + 1), EmptyMap)

\* the field of TodoList a member name selects ("" for any other name)
TodoField(name) ==
    CASE name = NameList -> "list"
      [] name = NameNextId -> "next_id"
      [] OTHER -> ""

\* the value of a TodoList field at position at
TodoValue(t, field, at) ==
    CASE field = "list" -> ParseJsonList(t, at)
      [] field = "next_id" -> ParseJsonU32(t, at)
      [] OTHER -> Fail

RECURSIVE ParseTodoMembers(_, _, _)
\* after a member of the TodoList object: a comma and the next member, or
\* the closing brace, where a missing field is an error
TodoMemberNext(t, after, got) ==
    IF At(t, after) = "," THEN ParseTodoMembers(t, SkipWs(t, after + 1), got)
    ELSE IF At(t, after) = "}" /\ DOMAIN got = {"list", "next_id"}
         THEN Good([list |-> got["list"], next_id |-> got["next_id"]], after + 1)
    ELSE Fail

\* the member of the TodoList object whose value was read; a repeated field
\* is an error
TodoMemberRead(t, acc, field, value) ==
    IF field \in DOMAIN acc \/ ~value.ok THEN Fail
    ELSE TodoMemberNext(t, SkipWs(t, value.pos),
             [f \in (DOMAIN acc) \cup {field} |-> IF f = field THEN value.val ELSE acc[f]])

\* the member of the TodoList object whose name was read
TodoMemberNamed(t, acc, name) ==
    IF ~name.ok \/ At(t, SkipWs(t, name.pos)) # ":" THEN Fail
    ELSE TodoMemberRead(t, acc, TodoField(name.val),
             TodoValue(t, TodoField(name.val), SkipWs(t, SkipWs(t, name.pos) + 1)))

\* the members of the TodoList object from the member name at position i
ParseTodoMembers(t, i, acc) == TodoMemberNamed(t, acc, ParseJsonString(t, i))

\* the TodoList object of the text, from its opening brace at position start
ParseJsonTodo(text, start) ==
    IF At(text, start) # "{" \/ At(text, SkipWs(text, start + 1)) = "}"
    THEN Fail
    ELSE ParseTodoMembers(text, SkipWs(text, start + 1), [f \in {} |-> 0])

\* the result of the read: nothing but whitespace may follow the object
FromJsonWhole(text, got) ==
    IF got.ok /\ SkipWs(text, got.pos) = Len(text) + 1
    THEN Ok(got.val)
    ELSE Err("serde_json::Error")

\* serde_json::from_reader::<TodoList>: the whole content must be one
\* TodoList object
FromJson(text) == FromJsonWhole(text, ParseJsonTodo(text, SkipWs(text, 1)))

(***************************************************************************)
(* Inputs.                                                                 *)
(***************************************************************************)
\* descriptions given to the library calls
Descs == { <<"a">>, <<"A">>, <<"b">>, <<"a", "B">> }

\* ids given to the library calls
Ids == 0 .. MaxNextId

(***************************************************************************)
(* The file system and the calls that read and write it.                   *)
(***************************************************************************)
Absent == [kind |-> "absent"]
\* a path the process may not open (permissions)
Denied == [kind |-> "denied"]
File(text) == [kind |-> "file", text |-> text]

\* static FILENAME
Filename == "todo_list"

JsonPath(filename) == filename \o ".json"
CsvPath(filename) == filename \o ".csv"

\* the name save_csv is called with to write the file read_csv(FILENAME)
\* opens: lib.rs appends ".csv" to it, main.rs writes the name as given
SaveCsvName(v) == IF v = "lib" THEN Filename ELSE CsvPath(Filename)

Paths == {JsonPath(Filename), CsvPath(Filename)}

\* std::fs::write: creates or truncates the file
FsWrite(f, path, text) ==
    IF f[path] = Denied
    THEN [fs |-> f, ret |-> Err("PermissionDenied")]
    ELSE [fs |-> [f EXCEPT ![path] = File(text)], ret |-> Ok("unit")]

\* the mutant: a save that leaves an existing file as it is
SaveJsonKeepsExisting(t, f, filename, order) ==
    IF f[JsonPath(filename)].kind = "file"
    THEN [fs |-> f, ret |-> Ok("unit")]
    ELSE FsWrite(f, JsonPath(filename), ToJsonPretty(t, order))

\* TodoList::save_json: the pretty JSON to "<filename>.json"
SaveJsonFn(t, f, filename, order) == FsWrite(f, JsonPath(filename), ToJsonPretty(t, order))

\* TodoList::save_csv
SaveCsvFn(v, t, f, filename, order) ==
    FsWrite(f, SaveCsvPath(v, filename), SaveCsvContent(v, t, order))

\* read_json of lib.rs: opens without create, so a missing file is an
\* error, and so is content that does not parse
ReadJsonLib(f, filename) ==
    LET path == JsonPath(filename) IN
    IF f[path] = Absent THEN [fs |-> f, ret |-> Err("NotFound")]
    ELSE IF f[path] = Denied THEN [fs |-> f, ret |-> Err("PermissionDenied")]
    ELSE IF FromJson(f[path].text).tag = "Err"
         THEN [fs |-> f, ret |-> Err("Error reading / opening file")]
    ELSE [fs |-> f, ret |-> FromJson(f[path].text)]

\* read_json of main.rs: opens with create(true), so a missing file is
\* created empty; content that does not parse yields TodoList::build()
ReadJsonMain(f, filename) ==
    LET path == JsonPath(filename)
        g == IF f[path] = Absent THEN [f EXCEPT ![path] = File(<<>>)] ELSE f
    IN  IF f[path] = Denied THEN [fs |-> f, ret |-> Err("PermissionDenied")]
        ELSE IF FromJson(g[path].text).tag = "Err" THEN [fs |-> g, ret |-> Ok(Build)]
        ELSE [fs |-> g, ret |-> FromJson(g[path].text)]

ReadJsonFn(v, f, filename) ==
    IF v = "lib" THEN ReadJsonLib(f, filename) ELSE ReadJsonMain(f, filename)

\* TodoList::read_csv: opens "<filename>.csv" with create(true)
ReadCsvFn(v, f, filename) ==
    LET path == CsvPath(filename)
        g == IF f[path] = Absent THEN [f EXCEPT ![path] = File(<<>>)] ELSE f
    IN  IF f[path] = Denied THEN [fs |-> f, ret |-> Err("PermissionDenied")]
        ELSE [fs |-> g, ret |-> ReadCsvText(v, g[path].text)]

(***************************************************************************)
(* Library calls on the collection in memory.                              *)
(***************************************************************************)
Call(op, arg, out) ==
    /\ ret.tag # "Panic"
    /\ todo' = out.todo
    /\ ret' = out.ret
    /\ last' = [op |-> op, arg |-> arg]

Insert(d) ==
    /\ todo.next_id < MaxNextId \/ ToAsciiLowercase(d) \in Keys(todo)
    /\ Call("insert", d, InsertFn(todo, d))
    /\ assigned' = IF ret'.b
                   THEN Append(assigned, todo'.list[ToAsciiLowercase(d)].id)
                   ELSE assigned
    /\ UNCHANGED <<variant, origin, fs, written, cli>>

GetItemByDescription(d) ==
    /\ Call("get_item_by_description", d,
            [todo |-> todo, ret |-> GetItemByDescriptionFn(todo, d)])
    /\ UNCHANGED <<variant, origin, assigned, fs, written, cli>>

GetItemById(id) ==
    /\ \E r \in GetItemByIdFn(todo, id) :
           Call("get_item_by_id", id, [todo |-> todo, ret |-> r])
    /\ UNCHANGED <<variant, origin, assigned, fs, written, cli>>

UpdateTodoItemDescription(d) ==
    /\ Call("update_todo_item_description", d, UpdateTodoItemDescriptionFn(todo, d))
    /\ UNCHANGED <<variant, origin, assigned, fs, written, cli>>

UpdateTodoItemId(id) ==
    /\ \E out \in UpdateTodoItemIdFn(todo, id) : Call("update_todo_item_id", id, out)
    /\ UNCHANGED <<variant, origin, assigned, fs, written, cli>>

RemoveByDescription(d) ==
    /\ Call("remove_by_description", d, RemoveByDescriptionFn(todo, d))
    /\ UNCHANGED <<variant, origin, assigned, fs, written, cli>>

RemoveById(id) ==
    /\ \E out \in RemoveByIdFn(todo, id) : Call("remove_by_id", id, out)
    /\ UNCHANGED <<variant, origin, assigned, fs, written, cli>>

\* what a save recorded for a path
Saved(fmt, t) == Some([fmt |-> fmt, todo |-> t])

SaveJson(filename) ==
    /\ ret.tag # "Panic"
    /\ \E order \in Orders(Keys(todo)) :
           LET out == SaveJsonFn(todo, fs, filename, order) IN
           /\ fs' = out.fs
           /\ ret' = out.ret
           /\ written' = IF out.ret.tag = "Ok"
                         THEN [written EXCEPT ![JsonPath(filename)] = Saved("json", todo)]
                         ELSE written
    /\ last' = [op |-> "save_json", arg |-> filename]
    /\ mutated' = FALSE
    /\ UNCHANGED <<variant, todo, origin, assigned, cli>>

SaveCsv(filename) ==
    /\ ret.tag # "Panic"
    /\ \E order \in Orders(Keys(todo)) :
           LET out == SaveCsvFn(variant, todo, fs, filename, order) IN
           /\ fs' = out.fs
           /\ ret' = out.ret
           /\ written' = IF out.ret.tag = "Ok"
                         THEN [written EXCEPT
                                 ![SaveCsvPath(variant, filename)] = Saved("csv", todo)]
                         ELSE written
    /\ last' = [op |-> "save_csv", arg |-> filename]
    /\ mutated' = FALSE
    /\ UNCHANGED <<variant, todo, origin, assigned, cli>>

\* a constructor returned: the caller holds the new collection on Ok, and
\* keeps what it had otherwise
Loaded(op, filename, out) ==
    /\ ret.tag # "Panic"
    /\ fs' = out.fs
    /\ ret' = out.ret
    /\ last' = [op |-> op, arg |-> filename]
    /\ IF out.ret.tag = "Ok"
       THEN todo' = out.ret.val /\ origin' = op /\ assigned' = <<>> /\ mutated' = FALSE
       ELSE UNCHANGED <<todo, origin, assigned, mutated>>
    /\ UNCHANGED <<variant, written, cli>>

ReadJson(filename) == Loaded("read_json", filename, ReadJsonFn(variant, fs, filename))

ReadCsv(filename) == Loaded("read_csv", filename, ReadCsvFn(variant, fs, filename))

(***************************************************************************)
(* The command line: render_cli and the actions it dispatches to.          *)
(* Every invocation is a process of its own; it touches the file when it   *)
(* reads it and when it saves it, and these are its steps.                 *)
(***************************************************************************)
\* two invocations, which may overlap
Procs == {"p1", "p2"}

Idle == [pc |-> "idle"]

\* the words render_cli tells apart, and one it does not know
CliActions == {"add", "remove", "update", "show", "help"}

\* actions::add
AddFn(t, item) == {[todo |-> InsertFn(t, item).todo, changes |-> TRUE]}

\* the mutant: a remove that falls back to the description when no item has
\* the id
RemoveFnFallsBack(t, item) ==
    IF ParseU32(Trim(item)).tag = "Ok" /\ KeysWithId(t, ParseU32(Trim(item)).val) # {}
    THEN {[todo |-> out.todo, changes |-> TRUE] : out \in RemoveByIdFn(t, ParseU32(Trim(item)).val)}
    ELSE {[todo |-> RemoveByDescriptionFn(t, item).todo, changes |-> TRUE]}

\* actions::remove: by id when the argument parses as u32, else by description
RemoveFn(t, item) ==
    IF ParseU32(Trim(item)).tag = "Ok"
    THEN {[todo |-> out.todo, changes |-> TRUE] : out \in RemoveByIdFn(t, ParseU32(Trim(item)).val)}
    ELSE {[todo |-> RemoveByDescriptionFn(t, item).todo, changes |-> TRUE]}

\* actions::update: by id when the argument parses as u32, else by description
UpdateFn(t, item) ==
    IF ParseU32(Trim(item)).tag = "Ok"
    THEN {[todo |-> out.todo, changes |-> TRUE] :
              out \in UpdateTodoItemIdFn(t, ParseU32(Trim(item)).val)}
    ELSE {[todo |-> UpdateTodoItemDescriptionFn(t, item).todo, changes |-> TRUE]}

\* the dispatch of render_cli: what the action does to the collection, and
\* whether the collection is saved afterwards
DispatchFn(t, action, item) ==
    CASE action = "add" -> AddFn(t, item)
      [] action = "remove" -> RemoveFn(t, item)
      [] action = "update" -> UpdateFn(t, item)
      [] action = "show" -> {[todo |-> t, changes |-> TRUE]}
      [] OTHER -> {[todo |-> t, changes |-> FALSE]}

\* render_cli up to `let mut todo = read(filename)`: actions::read expects
\* Ok, so an Err of read_json aborts the process
CliRead(p) ==
    /\ cli[p].pc \in {"idle", "panicked"}
    /\ LET out == ReadJsonFn(variant, fs, Filename)
           fresh == fs[JsonPath(Filename)] = Absent
       IN  /\ fs' = out.fs
           /\ cli' = [cli EXCEPT ![p] =
                        IF out.ret.tag = "Ok"
                        THEN [pc |-> "loaded", todo |-> out.ret.val, base |-> out.ret.val,
                              fresh |-> fresh]
                        ELSE [pc |-> "panicked", why |-> out.ret.err, fresh |-> fresh]]
    /\ UNCHANGED <<variant, todo, origin, assigned, written, mutated, last, ret>>

\* render_cli from the dispatch on `action` to before the save
CliAct(p, action, item) ==
    /\ cli[p].pc = "loaded"
    /\ action = "add" => cli[p].todo.next_id < MaxNextId
    /\ \E out \in DispatchFn(cli[p].todo, action, item) :
           cli' = [cli EXCEPT ![p] =
                     [pc |-> "acted", todo |-> out.todo, base |-> cli[p].base,
                      changes |-> out.changes, action |-> action, item |-> item,
                      fresh |-> cli[p].fresh]]
    /\ UNCHANGED <<variant, todo, origin, assigned, fs, written, mutated, last, ret>>

\* what the save of an invocation recorded for the file: the collection it
\* wrote, and whether the file held an item that another invocation had
\* saved there since this one loaded and that this save does not write
SavedOver(t, base, before) ==
    Some([fmt |-> "json", todo |-> t,
          lost |-> /\ before.tag = "Some"
                   /\ (Keys(before.val.todo) \ Keys(base)) \ Keys(t) # {}])

\* render_cli: `if changes { save(&mut todo, filename) }`, then the process
\* ends; actions::save prints an Err of save_json and goes on
CliSave(p) ==
    /\ cli[p].pc = "acted"
    /\ IF cli[p].changes
       THEN \E order \in Orders(Keys(cli[p].todo)) :
                LET out == SaveJsonFn(cli[p].todo, fs, Filename, order) IN
                /\ fs' = out.fs
                /\ written' = IF out.ret.tag = "Ok"
                              THEN [written EXCEPT
                                      ![JsonPath(Filename)] =
                                          SavedOver(cli[p].todo, cli[p].base,
                                                    written[JsonPath(Filename)])]
                              ELSE written
       ELSE UNCHANGED <<fs, written>>
    /\ cli' = [cli EXCEPT ![p] = Idle]
    /\ UNCHANGED <<variant, todo, origin, assigned, mutated, last, ret>>

(***************************************************************************)
(* Spec: a collection created by build, under the library calls.           *)
(***************************************************************************)
Init ==
    /\ variant \in Variants
    /\ todo = Build
    /\ origin = "build"
    /\ assigned = <<>>
    /\ fs = [p \in Paths |-> Absent]
    /\ written = [p \in Paths |-> None]
    /\ mutated = FALSE
    /\ cli = [p \in Procs |-> Idle]
    /\ last = [op |-> "build", arg |-> <<>>]
    /\ ret = None

\* a library call with no file at hand
InMemory(A) == A /\ UNCHANGED mutated

Next ==
    \/ \E d \in Descs : InMemory(Insert(d))
    \/ \E d \in Descs : InMemory(GetItemByDescription(d))
    \/ \E id \in Ids : InMemory(GetItemById(id))
    \/ \E d \in Descs : InMemory(UpdateTodoItemDescription(d))
    \/ \E id \in Ids : InMemory(UpdateTodoItemId(id))
    \/ \E d \in Descs : InMemory(RemoveByDescription(d))
    \/ \E id \in Ids : InMemory(RemoveById(id))

Spec == Init /\ [][Next]_vars

(***************************************************************************)
(* SpecJson: the collection and its JSON file.                             *)
(***************************************************************************)
\* descriptions with the characters JSON escapes
JsonDescs == { <<"a">>, <<"B", QUOTE, BACKSLASH, NL, ",">> }

\* content the JSON file may hold before the program runs
JsonGarbage == { <<>>, <<"{">>, ToJson(Build, <<>>) \o <<"}">> }

InitJson ==
    /\ variant \in Variants
    /\ todo = Build
    /\ origin = "build"
    /\ assigned = <<>>
    /\ \E c \in {Absent, Denied} \cup {File(g) : g \in JsonGarbage} :
           fs = [p \in Paths |-> IF p = JsonPath(Filename) THEN c ELSE Absent]
    /\ written = [p \in Paths |-> None]
    /\ mutated = FALSE
    /\ cli = [p \in Procs |-> Idle]
    /\ last = [op |-> "build", arg |-> <<>>]
    /\ ret = None

\* the caller with a file at hand, as render_cli: one mutating call between
\* two accesses to the file
Mutation(A) == ~mutated /\ A /\ mutated' = TRUE

NextJson ==
    \/ \E d \in JsonDescs : Mutation(Insert(d))
    \/ \E id \in Ids : Mutation(UpdateTodoItemId(id))
    \/ \E id \in Ids : Mutation(RemoveById(id))
    \/ SaveJson(Filename)
    \/ ReadJson(Filename)

SpecJson == InitJson /\ [][NextJson]_vars

(***************************************************************************)
(* SpecCsv: the collection and its CSV file.                               *)
(***************************************************************************)
\* descriptions with the characters the CSV format uses
CsvDescs == { <<"A">>, <<"b", NL>>, <<",", NL, "0", ",", "a">> }

\* content the CSV file may hold before the program runs
CsvGarbage == { HeaderOfCsv \o <<NL, "x", NL>>, HeaderOfCsv \o <<NL, "x", ",", "a", ",", NL>> }

InitCsv ==
    /\ variant \in Variants
    /\ todo = Build
    /\ origin = "build"
    /\ assigned = <<>>
    /\ \E c \in {Absent, Denied} \cup {File(g) : g \in CsvGarbage} :
           fs = [p \in Paths |-> IF p = CsvPath(Filename) THEN c ELSE Absent]
    /\ written = [p \in Paths |-> None]
    /\ mutated = FALSE
    /\ cli = [p \in Procs |-> Idle]
    /\ last = [op |-> "build", arg |-> <<>>]
    /\ ret = None

NextCsv ==
    \/ \E d \in CsvDescs : Mutation(Insert(d))
    \/ \E id \in Ids : Mutation(UpdateTodoItemId(id))
    \/ \E id \in Ids : Mutation(RemoveById(id))
    \/ SaveCsv(SaveCsvName(variant))
    \/ ReadCsv(Filename)

SpecCsv == InitCsv /\ [][NextCsv]_vars

(***************************************************************************)
(* SpecImport: the collection and a CSV file another tool wrote.           *)
(***************************************************************************)
\* well-formed content given to read_csv, with the header line as lib.rs
\* reads it and without as main.rs reads it
CsvImport(v) ==
    IF v = "lib"
    THEN HeaderOfCsv \o <<NL>> \o ElemInCsv(ItemBuild(0, <<"A">>)) \o <<NL>>
    ELSE ElemInCsv(ItemBuild(0, <<"A">>)) \o <<NL>>

InitImport ==
    /\ variant \in Variants
    /\ todo = Build
    /\ origin = "build"
    /\ assigned = <<>>
    /\ fs = [p \in Paths |-> IF p = CsvPath(Filename)
                              THEN File(CsvImport(variant))
                              ELSE Absent]
    /\ written = [p \in Paths |-> None]
    /\ mutated = FALSE
    /\ cli = [p \in Procs |-> Idle]
    /\ last = [op |-> "build", arg |-> <<>>]
    /\ ret = None

SpecImport == InitImport /\ [][NextCsv]_vars

(***************************************************************************)
(* SpecCli: invocations of the program on the JSON file.                   *)
(***************************************************************************)
\* the item arguments given on the command line
CliItems == { <<"A">>, <<"1">> }

\* the item of an invocation: "show" and "help" take none
ItemsOf(action) == IF action \in {"show", "help"} THEN {<<>>} ELSE CliItems

NextCli ==
    \/ \E p \in Procs : CliRead(p)
    \/ \E p \in Procs : \E action \in CliActions : \E item \in ItemsOf(action) :
           CliAct(p, action, item)
    \/ \E p \in Procs : CliSave(p)

SpecCli == InitJson /\ [][NextCli]_vars

(***************************************************************************)
(* SpecDispatch: one invocation after another on a saved store.            *)
(***************************************************************************)
\* the item arguments: a text, a number, and a number with a space before it
DispatchItems == CliItems \cup { <<" ", "0">> }

\* no other invocation is between its load and its save
Alone(p) == \A q \in Procs \ {p} : cli[q].pc \in {"idle", "panicked"}

NextDispatch ==
    \/ \E p \in Procs : Alone(p) /\ CliRead(p)
    \/ \E p \in Procs : \E action \in CliActions :
           \E item \in (IF ItemsOf(action) = CliItems THEN DispatchItems ELSE ItemsOf(action)) :
               Alone(p) /\ CliAct(p, action, item)
    \/ \E p \in Procs : Alone(p) /\ CliSave(p)

(***************************************************************************)
(* SpecOverlap: two invocations on a store an earlier invocation saved.    *)
(***************************************************************************)
InitStore ==
    /\ variant \in Variants
    /\ todo = Build
    /\ origin = "build"
    /\ assigned = <<>>
    /\ fs = [p \in Paths |-> IF p = JsonPath(Filename)
                              THEN File(ToJsonPretty(Build, <<>>))
                              ELSE Absent]
    /\ written = [p \in Paths |-> IF p = JsonPath(Filename)
                                   THEN SavedOver(Build, Build, None)
                                   ELSE None]
    /\ mutated = FALSE
    /\ cli = [p \in Procs |-> Idle]
    /\ last = [op |-> "build", arg |-> <<>>]
    /\ ret = None

\* the words given to the overlapping invocations: one that changes the
\* collection and one that saves it as loaded
OverlapActions == {"add", "show"}

NextOverlap ==
    \/ \E p \in Procs : CliRead(p)
    \/ \E p \in Procs : \E action \in OverlapActions : \E item \in ItemsOf(action) :
           CliAct(p, action, item)
    \/ \E p \in Procs : CliSave(p)

SpecOverlap == InitStore /\ [][NextOverlap]_vars

SpecDispatch == InitStore /\ [][NextDispatch]_vars

(***************************************************************************)
(* Properties of the library calls.                                       *)
(***************************************************************************)
Range(s) == {s[i] : i \in 1 .. Len(s)}

\* C1: insert(d) when no item has the key lowercase(d) returns true and the
\* item count grows by exactly 1; insert(d) when such an item exists, in any
\* casing of d, returns false and leaves the items and next_id unchanged.
C1_InsertContract ==
    [][ last'.op = "insert" =>
          IF ToAsciiLowercase(last'.arg) \notin Keys(todo)
          THEN /\ ret' = Bool(TRUE)
               /\ Cardinality(Keys(todo')) = Cardinality(Keys(todo)) + 1
          ELSE /\ ret' = Bool(FALSE)
               /\ todo' = todo ]_vars

\* C1 witness: an insert in another casing than the stored key was refused
\* while a second, new description had been accepted before.
C1_Witness ==
    /\ last.op = "insert"
    /\ ret = Bool(FALSE)
    /\ last.arg # ToAsciiLowercase(last.arg)
    /\ Cardinality(Keys(todo)) = 2

\* C2: from build, under insert, update and remove, every successful insert
\* assigns the number of successful inserts made before it as the id and
\* raises next_id by 1; no other call changes next_id; an id once assigned
\* is never assigned again, also after its holder was removed.
C2_IdAssignment ==
    [][ origin' = "build" =>
          IF last'.op = "insert" /\ ret' = Bool(TRUE)
          THEN LET id == todo'.list[ToAsciiLowercase(last'.arg)].id IN
               /\ id = Len(assigned)
               /\ id \notin Range(assigned)
               /\ todo'.next_id = todo.next_id + 1
               /\ \A k \in Keys(todo) : todo'.list[k].id = todo.list[k].id
          ELSE todo'.next_id = todo.next_id ]_vars

\* C2 witness: an insert succeeded after the holder of an earlier id was
\* removed, and took a fresh id.
C2_Witness ==
    /\ last.op = "insert"
    /\ ret = Bool(TRUE)
    /\ Len(assigned) = 2
    /\ \E i \in Range(assigned) : KeysWithId(todo, i) = {}

\* C3: for every item present, get_item_by_description with the item's
\* description in any casing and get_item_by_id with the item's id return
\* that item; both return nothing for a description or id no item has.
C3_FindAgree ==
    /\ last.op = "get_item_by_description" =>
          ret = IF ToAsciiLowercase(last.arg) \in Keys(todo)
                THEN Some(todo.list[ToAsciiLowercase(last.arg)])
                ELSE None
    /\ last.op = "get_item_by_id" =>
          IF KeysWithId(todo, last.arg) = {}
          THEN ret = None
          ELSE \E k \in KeysWithId(todo, last.arg) :
                   /\ ret = Some(todo.list[k])
                   /\ GetItemByDescriptionFn(todo, todo.list[k].description) = ret

\* the keys an update call is aimed at: the items with the id, or the item
\* under the lowercased description
UpdateTargets(t, call) ==
    IF call.op = "update_todo_item_id"
    THEN KeysWithId(t, call.arg)
    ELSE {ToAsciiLowercase(call.arg)} \cap Keys(t)

\* what an update call did to the item under key k and to nothing else
Toggled(t, k, after, out) ==
    /\ out = Some(~t.list[k].done)
    /\ Keys(after) = Keys(t)
    /\ after.list[k] = [id |-> t.list[k].id, description |-> t.list[k].description,
                        done |-> ~t.list[k].done]
    /\ \A j \in Keys(t) \ {k} : after.list[j] = t.list[j]
    /\ after.next_id = t.next_id

\* C12: update_todo_item_id and update_todo_item_description on a present
\* item flip its done flag and return the new value, leaving its id, its
\* description, every other item and next_id unchanged; applying either
\* update twice restores the collection; on an absent target they return
\* nothing and change nothing.
C12_UpdateToggles ==
    /\ [][ last'.op \in {"update_todo_item_id", "update_todo_item_description"} =>
              IF UpdateTargets(todo, last') = {}
              THEN ret' = None /\ todo' = todo
              ELSE \E k \in UpdateTargets(todo, last') : Toggled(todo, k, todo', ret') ]_vars
    /\ [](\A d \in Descs :
             UpdateTodoItemDescriptionFn(UpdateTodoItemDescriptionFn(todo, d).todo, d).todo
                 = todo)
    /\ [](\A id \in Ids : \A once \in UpdateTodoItemIdFn(todo, id) :
             \A twice \in UpdateTodoItemIdFn(once.todo, id) : twice.todo = todo)

\* C12 witness: an update by id returned false, so that the item had been
\* set done by an earlier update, while the other item of the collection
\* is done.
C12_Witness ==
    /\ last.op = "update_todo_item_id"
    /\ ret = Some(FALSE)
    /\ Cardinality(Keys(todo)) = 2
    /\ \E k \in Keys(todo) : todo.list[k].done

(***************************************************************************)
(* Properties of the files.                                               *)
(***************************************************************************)
\* the (id, description, done) triples of a collection
Triples(t) == {t.list[k] : k \in Keys(t)}

MaxOf(S) == CHOOSE x \in S : \A y \in S : y <= x

\* whether some description of the collection holds the character c
SomeDescriptionHas(t, c) ==
    \E k \in Keys(t) : \E i \in 1 .. Len(t.list[k].description) : t.list[k].description[i] = c

\* the collection the last save put into the file at this path
SavedAt(path) == written[path].val.todo

\* C6: saving a collection as JSON and loading that JSON back yields an
\* equal collection: the same keys, the same items and the same next_id,
\* also when next_id exceeds 1 + the largest remaining id.
C6_JsonRoundTrip ==
    (last.op = "read_json" /\ written[JsonPath(last.arg)].tag = "Some") =>
        /\ ret = Ok(SavedAt(JsonPath(last.arg)))
        /\ todo = SavedAt(JsonPath(last.arg))

\* C6 witness: a collection was read back whose next_id is 2 while its only
\* item, with quote, backslash, line feed and comma in the description and
\* done set, has id 0.
C6_Witness ==
    /\ last.op = "read_json"
    /\ written[JsonPath(last.arg)].tag = "Some"
    /\ todo.next_id = 2
    /\ \E k \in Keys(todo) :
           /\ Keys(todo) = {k}
           /\ todo.list[k].id = 0
           /\ todo.list[k].done
           /\ SomeDescriptionHas(todo, QUOTE)

\* what C7 says of a load that follows a save of a collection
CsvRoundTrip(saved) ==
    /\ ret.tag = "Ok"
    /\ Triples(todo) = Triples(saved)
    /\ Keys(todo) # {} => todo.next_id = 1 + MaxOf({todo.list[k].id : k \in Keys(todo)})

\* C7 as stated: for every collection whose descriptions hold no comma,
\* saving it as CSV and loading that CSV back yields the same triples and
\* next_id = 1 + the largest id loaded.
C7_CsvRoundTripNoComma ==
    (/\ last.op = "read_csv"
     /\ written[CsvPath(last.arg)].tag = "Some"
     /\ ~SomeDescriptionHas(SavedAt(CsvPath(last.arg)), COMMA))
        => CsvRoundTrip(SavedAt(CsvPath(last.arg)))

\* C7 as amended: for every collection whose descriptions hold no comma and
\* no line feed, saving it as CSV and loading that CSV back yields the same
\* triples and, when a row was loaded, next_id = 1 + the largest id loaded.
C7_CsvRoundTripNoCommaNoLineFeed ==
    (/\ last.op = "read_csv"
     /\ written[CsvPath(last.arg)].tag = "Some"
     /\ ~SomeDescriptionHas(SavedAt(CsvPath(last.arg)), COMMA)
     /\ ~SomeDescriptionHas(SavedAt(CsvPath(last.arg)), NL))
        => CsvRoundTrip(SavedAt(CsvPath(last.arg)))

\* C7 witness: a collection with an item that is done and whose id is not 0
\* was saved as CSV and read back.
C7_Witness ==
    /\ last.op = "read_csv"
    /\ ret.tag = "Ok"
    /\ written[CsvPath(last.arg)].tag = "Some"
    /\ Triples(todo) = Triples(SavedAt(CsvPath(last.arg)))
    /\ ~SomeDescriptionHas(todo, COMMA)
    /\ \E k \in Keys(todo) : todo.list[k].done /\ todo.list[k].id = 1

\* C8: an empty collection saved as CSV is exactly the header line; loading
\* it yields an empty collection with next_id = 0, and the first insert
\* after the load receives id 0.
C8_EmptyCsv ==
    /\ (last.op = "save_csv" /\ ret.tag = "Ok" /\ Keys(todo) = {}) =>
          fs[SaveCsvPath(variant, last.arg)] = File(HeaderOfCsv \o <<NL>>)
    /\ (/\ last.op = "read_csv"
        /\ written[CsvPath(last.arg)].tag = "Some"
        /\ Keys(SavedAt(CsvPath(last.arg))) = {}) => ret = Ok(Build)
    /\ (/\ last.op = "insert"
        /\ ret = Bool(TRUE)
        /\ origin = "read_csv"
        /\ Len(assigned) = 1
        /\ Cardinality(Keys(todo)) = 1
        /\ written[CsvPath(Filename)].tag = "Some"
        /\ Keys(SavedAt(CsvPath(Filename))) = {}) => assigned = <<0>>

\* a data line C9 calls malformed: fewer than three comma-separated fields,
\* or an id field that is no unsigned integer
Malformed(line) ==
    \/ Len(SplitAll(COMMA, line)) < 3
    \/ ParseU32(Trim(SplitAll(COMMA, line)[1])).tag = "Err"

\* C9: read_csv returns an error value, and does not abort the process,
\* whenever a data line is malformed or the file cannot be opened for read.
C9_ReadCsvReturnsError ==
    last.op = "read_csv" =>
        LET f == fs[CsvPath(last.arg)] IN
        /\ ret.tag # "Panic"
        /\ f = Denied => ret.tag = "Err"
        /\ (/\ f.kind = "file"
            /\ \E i \in 1 .. Len(CsvDataLines(variant, f.text)) :
                   Malformed(CsvDataLines(variant, f.text)[i])) => ret.tag = "Err"

\* C10: in every collection reachable from build or from a load of a saved
\* file, followed by insert, update and remove, every item's id is below
\* next_id and no two items have the same id.
C10_IdsBelowNextIdAndUnique ==
    /\ \A k \in Keys(todo) : todo.list[k].id < todo.next_id
    /\ \A k1, k2 \in Keys(todo) : todo.list[k1].id = todo.list[k2].id => k1 = k2

\* C11: in every reachable collection, one produced by read_csv or
\* read_json included, every key of the map is the lowercase of the
\* description of the item stored under it.
C11_KeyIsLowercaseDescription ==
    \A k \in Keys(todo) : k = ToAsciiLowercase(todo.list[k].description)

(***************************************************************************)
(* Properties of the command line.                                        *)
(***************************************************************************)
\* whether the JSON file exists and its content does not parse
InvalidJsonFile(f) ==
    f[JsonPath(Filename)].kind = "file" /\ FromJson(f[JsonPath(Filename)].text).tag = "Err"

\* C4: loading a JSON file whose content is invalid yields an error to the
\* caller and never a collection; consequently no save overwrites the file.
C4_InvalidJsonIsAnError ==
    [][ InvalidJsonFile(fs) =>
          /\ fs'[JsonPath(Filename)] = fs[JsonPath(Filename)]
          /\ \A p \in Procs : cli'[p].pc = "loaded" => cli[p].pc = "loaded" ]_vars

\* C5: when the JSON file does not exist, the invocation creates it and
\* proceeds with a usable collection, and a first 'add' ends with the item
\* in the file.
C5_MissingJsonIsCreated ==
    [][ \A p \in Procs :
          /\ (cli[p].pc \in {"idle", "panicked"} /\ cli'[p].pc # cli[p].pc
                  /\ fs[JsonPath(Filename)] = Absent) =>
                 /\ cli'[p].pc = "loaded"
                 /\ fs'[JsonPath(Filename)].kind = "file"
          /\ (cli[p].pc = "acted" /\ cli'[p].pc = "idle"
                  /\ cli[p].fresh /\ cli[p].action = "add") =>
                 /\ FromJson(fs'[JsonPath(Filename)].text).tag = "Ok"
                 /\ ToAsciiLowercase(cli[p].item)
                        \in Keys(FromJson(fs'[JsonPath(Filename)].text).val) ]_vars

\* C13: no lock orders two invocations on the same file. Every save leaves
\* in the file exactly the collection of the invocation that saves, which
\* is its action applied to what it loaded, whatever another invocation
\* saved in between; and every load returns the collection saved last.
C13_LastWriterWins ==
    [][ \A p \in Procs :
          /\ (cli[p].pc = "acted" /\ cli'[p].pc = "idle" /\ cli[p].changes) =>
                 /\ FromJson(fs'[JsonPath(Filename)].text) = Ok(cli[p].todo)
                 /\ cli[p].todo \in {out.todo : out \in DispatchFn(cli[p].base,
                                                       cli[p].action, cli[p].item)}
          /\ (cli[p].pc = "idle" /\ cli'[p].pc # "idle"
                  /\ written[JsonPath(Filename)].tag = "Some") =>
                 /\ cli'[p].pc = "loaded"
                 /\ cli'[p].todo = SavedAt(JsonPath(Filename)) ]_vars

\* C13 witness: both invocations are over; the one that saved last had
\* loaded before the other saved, and an item the other had added is not
\* in the file, which holds the collection of the last one with its own add.
C13_Witness ==
    /\ \A p \in Procs : cli[p].pc = "idle"
    /\ written[JsonPath(Filename)].tag = "Some"
    /\ written[JsonPath(Filename)].val.lost
    /\ FromJson(fs[JsonPath(Filename)].text) = Ok(SavedAt(JsonPath(Filename)))
    /\ Keys(SavedAt(JsonPath(Filename))) # {}

\* what the by-id call of the command does to the collection
ByIdFn(action, t, id) ==
    IF action = "remove" THEN RemoveByIdFn(t, id) ELSE UpdateTodoItemIdFn(t, id)

\* what the by-description call of the command does to the collection
ByDescriptionFn(action, t, d) ==
    IF action = "remove" THEN RemoveByDescriptionFn(t, d) ELSE UpdateTodoItemDescriptionFn(t, d)

\* the keys whose item the step removed or changed
Touched(before, after) ==
    {k \in Keys(before) : k \notin Keys(after) \/ after.list[k] # before.list[k]}

\* C14: 'remove' and 'update' call the by-id operation whenever the trimmed
\* argument parses as an unsigned integer and the by-description operation
\* only when it does not; a failed id lookup does not fall back to the
\* description, so the command touches no item but one whose id is the
\* argument, also when an item's description is that number.
C14_DispatchByParse ==
    [][ \A p \in Procs :
          (cli[p].pc = "loaded" /\ cli'[p].pc = "acted"
               /\ cli'[p].action \in {"remove", "update"}) =>
              IF ParseU32(Trim(cli'[p].item)).tag = "Ok"
              THEN /\ cli'[p].todo \in
                        {out.todo : out \in ByIdFn(cli'[p].action, cli[p].todo,
                                                   ParseU32(Trim(cli'[p].item)).val)}
                   /\ \A k \in Touched(cli[p].todo, cli'[p].todo) :
                          cli[p].todo.list[k].id = ParseU32(Trim(cli'[p].item)).val
                   /\ KeysWithId(cli[p].todo, ParseU32(Trim(cli'[p].item)).val) = {}
                          => cli'[p].todo = cli[p].todo
              ELSE cli'[p].todo =
                       ByDescriptionFn(cli'[p].action, cli[p].todo, cli'[p].item).todo ]_vars

\* C14 witness: 'remove 1' ran on a collection whose item "1", added with
\* 'add 1', has id 0, and the item is still there.
C14_Witness ==
    \E p \in Procs :
        /\ cli[p].pc = "acted"
        /\ cli[p].action = "remove"
        /\ cli[p].item = <<"1">>
        /\ <<"1">> \in Keys(cli[p].base)
        /\ cli[p].base.list[<<"1">>].id = 0
        /\ cli[p].todo = cli[p].base

====
